---- MODULE Spec2Model ----
(***************************************************************************)
(* A model of the scheduling loop of src/bot.py (run, lines 328-489) and   *)
(* of the helpers it calls: fib_gen, refill_queue, get_token_price_usd,    *)
(* buy_tokens, sell_tokens, send_tx.                                       *)
(*                                                                         *)
(* One step of the model is one pass of the `while True` loop, from the    *)
(* refill test at line 370 to the sleep (or `continue`) that ends it.      *)
(* The chain, the router and the price oracle are outside the program:     *)
(* every balance read, oracle answer, transaction outcome and random draw  *)
(* of a pass is an input of the step.  The inputs a run can see are fixed  *)
(* when it starts (env, see Scenarios); the runs explored are the union    *)
(* over the scenarios, not their product.  Calls take no time: the clock   *)
(* moves only in time.sleep.                                               *)
(* The chain also moves on its own between two passes (Settle): a          *)
(* transaction that send_tx stopped waiting for is mined later.            *)
(*                                                                         *)
(* Units: time in whole seconds; native amounts in 10^15 wei (0.001 BNB),  *)
(* so that int(GAS_RESERVE_BNB * 1e18) is 2; fractions in percent.  On the *)
(* amounts used here Python's int(x * 1.05), int(x * 0.3), int(x * 0.4)    *)
(* and int(x * f) equal the integer floors written below.                  *)
(***************************************************************************)
EXTENDS Integers, Sequences, FiniteSets, TLC

VARIABLES
    accounts,           \* run: the wallets load_wallets_from_env returned
    state,              \* run: state[addr] = entry_time, entry_price, sell_count
    last_received_bnb,  \* module global, line 68
    action_queue,       \* run: deque of "buy"/"sell" tokens
    buy_fib,            \* run: generator feeding buy_count
    sell_fib,           \* run: generator feeding sell_count
    TOKENUSD_CACHE,     \* _TOKENUSD_CACHE, line 150
    now,                \* the wall clock read by _now()
    pc,                 \* "loop" while run() is looping, "crashed" once it raised
    VOLUME_MODE,        \* configuration, line 57
    POSITION_PCT_MAX,   \* configuration, line 55 (percent)
    outstanding,        \* the chain: each account's transactions that were
                        \* broadcast and are neither mined nor dropped yet
    env,                \* the answers the chain, the router and the oracle can
                        \* give in this run (it never changes)
    refill_log,         \* history: the (buy, sell) token counts of each refill
    buy_streak,         \* history: consecutive successful buys of each account
    forced_sells,       \* history: forced sells of each account since its last buy
    sold,               \* history: some sell has returned a hash in this run
    last_fetch,         \* history: when the oracle last answered, and what
    cooldown_until,     \* history: when the pause after the last executed trade ends
    last                \* history: what the last pass of the loop did

vars == <<accounts, state, last_received_bnb, action_queue, buy_fib, sell_fib,
          TOKENUSD_CACHE, now, pc, VOLUME_MODE, POSITION_PCT_MAX, outstanding,
          env, refill_log, buy_streak, forced_sells, sold, last_fetch,
          cooldown_until, last>>

----------------------------------------------------------------------------
(* Bounds of the model.                                                    *)

\* No pass starts after MaxTime (after LongTime in the one run that waits
\* for HOLD_MAX to elapse), and the queue is refilled at most MaxRefills times.
MaxTime == 12
LongTime == 21
MaxRefills == 3
\* An account has at most MaxPool transactions outstanding.
MaxPool == 2

(* Program constants (defaults of the environment lookups).                *)

STAGGER_MIN == 3
STAGGER_MAX == 6
HOLD_MIN == 10
HOLD_MAX == 18
POSITION_PCT_MIN == 1
PROFIT_TARGET == 105
GAS_RESERVE == 2
PRICE_TTL == 10
BACKOFF == 5
REINVEST_PCT == 105
BUY_CAP_PCT == 30
FORCED_FIRST_PCT == 40
FORCED_NEXT_PCT == 30
SELL_PCT_MIN == 30
SELL_PCT_MAX == 40
SLIPPAGE_TOLERANCE == 70
\* The allowance an approval grants (2**256 - 1): above every amount here.
UNLIMITED == 1000000

\* The wallets a run can be configured with (WALLET1_PRIVATE_KEY, ...).
Wallets == {"w1", "w2"}

\* Python's None, for entry_time, entry_price, the cached price and a price.
None == 0 - 1

\* Python truthiness of an optional number: None and 0 are false.
Truthy(x) == x # None /\ x # 0

Min(x, y) == IF x <= y THEN x ELSE y
Max(x, y) == IF x >= y THEN x ELSE y

\* int(x * (p / 100)) for x >= 0.
PctOf(x, p) == (x * p) \div 100

\* random.uniform(lo, hi): its two ends.
Uniform(lo, hi) == {lo, hi}

----------------------------------------------------------------------------
(* fib_gen, lines 315-319: a generator is the pair (a, b) it holds, and    *)
(* whether it has been started.                                            *)

fib_gen == [a |-> 0, b |-> 1, started |-> FALSE]

\* fib_gen with `a, b = b, a + b` written as two assignments in a row.
GenNextSequential(g) ==
    IF g.started THEN [a |-> g.b, b |-> g.b + g.b, started |-> TRUE]
    ELSE [g EXCEPT !.started = TRUE]

\* next(g): the generator after it ran to its next `yield b`.
GenNext(g) ==
    IF g.started THEN [a |-> g.b, b |-> g.a + g.b, started |-> TRUE]
    ELSE [g EXCEPT !.started = TRUE]

\* The value that next(g) returns.
GenValue(g) == GenNext(g).b

\* All orders random.shuffle can give ['buy'] * nb + ['sell'] * ns.
RECURSIVE Shuffles(_, _)
Shuffles(nb, ns) ==
    IF nb = 0 /\ ns = 0 THEN {<<>>}
    ELSE (IF nb > 0 THEN {<<"buy">> \o s : s \in Shuffles(nb - 1, ns)} ELSE {})
         \cup (IF ns > 0 THEN {<<"sell">> \o s : s \in Shuffles(nb, ns - 1)} ELSE {})

\* refill_queue, lines 359-365: the queues it can leave behind.
refill_queue(q, bf, sf) ==
    {q \o s : s \in Shuffles(GenValue(bf), GenValue(sf))}

Count(s, tok) == Cardinality({i \in 1..Len(s) : s[i] = tok})

----------------------------------------------------------------------------
(* get_token_price_usd, lines 155-178.  usd_out is the router's answer;    *)
(* the result is the pair of the cache afterwards and the value returned.  *)

(* `called` tells whether the router was asked (lines 163-166).             *)

\* A cache whose entries never expire.
CacheFreshNoExpiry(cache, t) == cache.v # None

\* Line 157: the cached price is returned as it is.
CacheFresh(cache, t) == cache.v # None /\ t - cache.t <= PRICE_TTL

get_token_price_usd(cache, t, usd_out) ==
    IF CacheFresh(cache, t) THEN [cache |-> cache, v |-> cache.v, called |-> FALSE]
    ELSE IF usd_out = 0 THEN [cache |-> cache, v |-> cache.v, called |-> TRUE]
    ELSE [cache |-> [t |-> t, v |-> usd_out], v |-> usd_out, called |-> TRUE]

\* Line 442: the price of a pass, and the cache after it; `looked` tells
\* whether get_token_price_usd was called at all.
PriceLookup(cache, t, usd_out, volume) ==
    IF volume THEN [cache |-> cache, v |-> None, called |-> FALSE, looked |-> FALSE]
    ELSE [looked |-> TRUE] @@ get_token_price_usd(cache, t, usd_out)

\* Line 381: spendable = max(0, bnb_bal - int(GAS_RESERVE_BNB * 1e18)).
spendable(bnb_bal) == Max(0, bnb_bal - GAS_RESERVE)

\* _pick_position_fraction, lines 324-326.
pick_position_fraction(pct_max) ==
    Uniform(Min(POSITION_PCT_MIN, pct_max), Max(POSITION_PCT_MIN, pct_max))

\* The size of a buy that never looks at last_received_bnb.
to_spend_draw_only(received, amount, frac) ==
    Min(PctOf(amount, frac), PctOf(amount, BUY_CAP_PCT))

\* Lines 445-446: the size of a buy.
to_spend(received, amount, frac) ==
    Min(IF received > 0 THEN PctOf(received, REINVEST_PCT) ELSE PctOf(amount, frac),
        PctOf(amount, BUY_CAP_PCT))

\* Lines 383 and 464: the age of an entry.
Age(entry_time, t) == IF Truthy(entry_time) THEN t - entry_time ELSE 0

\* Lines 465-468: the sell decision.
sell_now(age, price, entry_price, volume) ==
    \/ (IF volume THEN age >= HOLD_MIN ELSE age >= HOLD_MAX)
    \/ /\ ~volume
       /\ Truthy(price)
       /\ Truthy(entry_price)
       /\ entry_price > 0
       /\ price * 100 >= entry_price * PROFIT_TARGET

\* A forced sell that offers the whole balance.
sell_percentage_all(sell_count) == 100

\* Line 395: the share of the balance a forced sell offers.
sell_percentage(sell_count) ==
    IF sell_count = 0 THEN FORCED_FIRST_PCT ELSE FORCED_NEXT_PCT

\* Lines 454-456: the account's record after a buy that returned a hash.
StateAfterBuy(rec, t, price) ==
    [entry_time |-> t,
     entry_price |-> IF Truthy(price) THEN price ELSE 0,
     sell_count |-> 0]

\* Lines 403-405 and 476-478: the record after a sell that returned a hash.
StateAfterSell(rec) ==
    [entry_time |-> None, entry_price |-> None, sell_count |-> rec.sell_count + 1]

\* buy_tokens / sell_tokens, lines 257-303: with a positive amount they return
\* a hash exactly when send_tx (and, for a sell, both balance reads) did not
\* raise.  The record of an account after a trade with that result:
RecordAfterTrade(rec, kind, result, t, price) ==
    IF result # "ok" THEN rec
    ELSE IF kind = "buy" THEN StateAfterBuy(rec, t, price)
    ELSE StateAfterSell(rec)

\* sell_tokens assigning last_received_bnb before it knows send_tx returned.
ReceivedAssignedFirst(old, result, received) == received

\* Lines 297-301: last_received_bnb is assigned after send_tx has returned.
ReceivedAfterSell(old, result, received) ==
    IF result = "ok" THEN received ELSE old

\* A pass that sleeps nothing after its trade.
SleepAfterFailureOnly(performed, stagger) ==
    IF performed THEN {0} ELSE {BACKOFF}

\* Lines 484-489: the sleep that ends a pass which reached them.
SleepAfter(performed, stagger) ==
    IF performed THEN stagger ELSE {BACKOFF}

\* A forced sell that queues another sell however many came before.
QueueAfterForcedSellAlways(rest, result, sell_count) ==
    IF result = "ok" THEN <<"sell">> \o rest ELSE rest

\* Lines 406-407: a forced sell puts one more sell in front of the queue.
QueueAfterForcedSell(rest, result, sell_count) ==
    IF result = "ok" /\ sell_count < 2 THEN <<"sell">> \o rest ELSE rest

(* send_tx, lines 211-237.  A transaction ends in one of four ways:        *)
(*   "ok"        mined with status 1: send_tx returns the receipt;         *)
(*   "reverted"  mined with another status: send_tx raises (line 233);     *)
(*   "rejected"  signing or send_raw_transaction raised: never broadcast;  *)
(*   "pending"   broadcast, then wait_for_transaction_receipt raised (its  *)
(*               timeout, or an RPC error): send_tx raises and the         *)
(*               transaction stays outstanding.                            *)
(* An account's outstanding transactions are the sequence of their nonces, *)
(* written relative to the number of its mined transactions.               *)

\* Line 212: web3.eth.get_transaction_count(address), asked without a block
\* identifier, counts the transactions mined so far and none of the
\* outstanding ones.
get_transaction_count(pool) == 0

\* The pool once a transaction with this nonce is mined: those with a nonce
\* up to it can no longer be mined, the others are one closer to the count.
Mined(pool, nonce) ==
    LET rest == SelectSeq(pool, LAMBDA n : n > nonce)
    IN  [i \in 1..Len(rest) |-> rest[i] - (nonce + 1)]

send_tx(pool, fate) ==
    LET nonce == get_transaction_count(pool)
    IN  IF fate = "rejected" THEN pool
        ELSE IF fate = "pending" THEN Append(pool, nonce)
        ELSE Mined(pool, nonce)

\* approve_if_needed, lines 242-255: "none" when no approval is sent (the
\* allowance covers the amount, or the allowance call raised); whatever
\* send_tx raises is caught at line 253.
approve_if_needed(pool, approve) ==
    IF approve = "none" THEN pool ELSE send_tx(pool, approve)

\* Lines 244-250: what approve_if_needed can do when allowance() answers
\* `allowance` (None when the call raised): nothing, or an approval that
\* ends in one of the ways of `approve`.
Approvals(allowance, amount, approve) ==
    IF allowance = None \/ allowance >= amount THEN {"none"} ELSE approve \ {"none"}

\* The router moves the tokens of a swap with transferFrom: a swap whose
\* amount the allowance is known not to cover, and for which no approval
\* reached the chain, cannot be mined with status 1.
MayReturn(allowance, amount, approve) ==
    allowance = None \/ allowance >= amount \/ approve \in {"ok", "pending"}

\* The ways the transaction of a trade with this result can have ended.
Fates(result, fates) == IF result = "ok" THEN {"ok"} ELSE fates

\* Lines 260 and 284: the path of the swap is the direct pair, whatever the
\* candidate paths would quote.
path == "direct"

\* Lines 261 and 285: the minimum output handed to the router.
amount_out_min == 0

----------------------------------------------------------------------------
(* History.                                                                *)

\* kind: the branch of the pass; acct: the wallet chosen; outcome: "ok" (the
\* trade returned a hash), "raised" (it raised), "skipped" (size <= 0), "held"
\* (sell_now was false), "idle" (no wallet), "crash"; amount: the size of the
\* trade; base: the balance it was computed from (for "idle", the token
\* balance of the wallet picked for a forced sell); entry: the wallet's
\* entry_time before the pass; slept: the seconds slept at the end of the pass.
\* quotes: what the router would quote for the amount over the direct path
\* and over the path through the intermediate asset; min_out and path: the
\* arguments of the swap (these three are set by Swap, for a submitted trade).
Event(kind, acct, outcome, amount, base, entry, slept) ==
    [kind |-> kind, acct |-> acct, outcome |-> outcome, amount |-> amount,
     base |-> base, entry |-> entry, slept |-> slept,
     quotes |-> <<0, 0>>, min_out |-> 0, path |-> "none",
     lookup |-> "none", price |-> None, fetch_age |-> None, since |-> None,
     entry_price |-> None, allowance |-> None, approve |-> "none", fate |-> "none"]

\* Lines 263-268 and 287-293: the swap that buy_tokens / sell_tokens builds.
Swap(e, quotes) ==
    [e EXCEPT !.quotes = quotes, !.min_out = amount_out_min, !.path = path]

NoEvent == Event("start", "none", "none", 0, 0, None, 0)

\* The oracle's last answer after a lookup at time t that it answered usd_out
\* (0 when both of its calls failed).
FetchAfter(fetch, got, t, usd_out) ==
    IF got.called /\ usd_out # 0 THEN [t |-> t, v |-> usd_out] ELSE fetch

\* lookup: "none" (the pass did not call get_token_price_usd), "cached" (it
\* returned without asking the router) or "called"; price: what it returned;
\* fetch_age: the seconds since the oracle's last answer, at the lookup.
Looked(e, got, fetch, t) ==
    IF ~got.looked THEN e
    ELSE [e EXCEPT !.lookup = IF got.called THEN "called" ELSE "cached",
                   !.price = got.v,
                   !.fetch_age = IF fetch.v = None THEN None ELSE t - fetch.t]

\* allowance: what allowance() answered in the sell of the pass; approve: how
\* the approval it sent ended ("none": it sent none); fate: how its swap ended.
Allowed(e, allowance, approve, fate) ==
    [e EXCEPT !.allowance = allowance, !.approve = approve, !.fate = fate]

\* entry_price: the wallet's entry_price before the buy of the pass.
Priced(e, rec) == [e EXCEPT !.entry_price = rec.entry_price]

\* The end of the pause that follows a trade submitted at time t.
CooldownAfter(until, result, t, sleep_time) ==
    IF result = "ok" THEN t + sleep_time ELSE until

\* since: the seconds between the end of the pause that followed the last
\* executed trade and the submission, at time t, of this one.
Paced(e, until, t) ==
    [e EXCEPT !.since = IF until = None THEN None ELSE t - until]

\* buy_streak after a trade: a buy adds one, a sell takes one (never below 0).
StreakAfter(n, kind, result) ==
    IF result # "ok" THEN n
    ELSE IF kind = "buy" THEN n + 1 ELSE Max(0, n - 1)

----------------------------------------------------------------------------
(* The runs explored.  Each is a configuration (the wallets, VOLUME_MODE,  *)
(* POSITION_PCT_MAX) and an environment, the inputs its passes draw from:  *)
(*   bnb       what web3.eth.get_balance answers: 1 is below the reserve,  *)
(*             5 just above it, 102 well above it;                         *)
(*   tok       what token_balance_of answers: 0 (also its answer when the  *)
(*             call fails), 2 (dust), 100;                                 *)
(*   oracle    getAmountsOut(...)[-1] in USD: 0 is both lookups failing;   *)
(*   results   of a submitted trade: "ok" (buy_tokens / sell_tokens        *)
(*             returned a hash) or "raised";                               *)
(*   received  new_bnb - old_bnb + gas_cost of a sell that returned;       *)
(*   stagger   the draws of random.uniform(STAGGER_MIN, STAGGER_MAX);      *)
(*   rpc_down  whether web3.eth.get_balance can raise;                     *)
(*   fates     how a transaction that made send_tx raise can have ended;   *)
(*   approve   what approve_if_needed can do in a sell: send nothing       *)
(*             ("none"), or send an approval that ends in that way;        *)
(*   allowance what token.allowance(account, router) answers, None when    *)
(*             the call raises;                                            *)
(*   quotes    what router.getAmountsOut would answer for the amount of a  *)
(*             trade over the direct path and over the path through the    *)
(*             intermediate asset (the program never asks);                *)
(*   horizon   the time after which no pass of the run is explored.        *)

Environment(bnb, tok, oracle, results, received, stagger, rpc_down, horizon) ==
    [bnb |-> bnb, tok |-> tok, oracle |-> oracle, results |-> results,
     received |-> received, stagger |-> stagger, rpc_down |-> rpc_down,
     horizon |-> horizon, quotes |-> {<<100, 120>>},
     fates |-> {"rejected"}, approve |-> {"none"}, allowance |-> {UNLIMITED}]

Scenarios ==
    { \* two wallets with dust only: every pass ends at a `continue`
      [wallets |-> Wallets, volume |-> {FALSE}, pct_max |-> {30},
       env |-> Environment({5}, {2}, {100}, {"ok"}, {20}, {STAGGER_MIN}, FALSE,
                           MaxTime)],
      \* one wallet, balances that come and go, a moving price
      [wallets |-> {"w1"}, volume |-> BOOLEAN, pct_max |-> {10, 30},
       env |-> Environment({1, 102}, {0, 100}, {100, 105}, {"ok", "raised"},
                           {20, 400}, {STAGGER_MIN, STAGGER_MAX}, FALSE, MaxTime)],
      \* two wallets
      [wallets |-> Wallets, volume |-> {TRUE}, pct_max |-> {30},
       env |-> Environment({1, 102}, {0, 100}, {100}, {"ok", "raised"}, {20},
                           {STAGGER_MIN}, FALSE, MaxTime)],
      \* an endpoint that can fail, an oracle that can fail
      [wallets |-> {"w1"}, volume |-> {FALSE}, pct_max |-> {50},
       env |-> [Environment({1, 102}, {0, 2, 100}, {0, 100}, {"ok"}, {1},
                            {STAGGER_MIN}, TRUE, MaxTime)
                EXCEPT !.quotes = {<<100, 120>>, <<120, 120>>, <<0, 0>>}]],
      \* one wallet without native balance, followed until HOLD_MAX has elapsed
      [wallets |-> {"w1"}, volume |-> {FALSE}, pct_max |-> {30},
       env |-> Environment({1}, {0, 100}, {100}, {"ok"}, {20}, {STAGGER_MIN},
                           FALSE, LongTime)],
      \* one wallet, a chain on which transactions revert or stay pending
      [wallets |-> {"w1"}, volume |-> {TRUE}, pct_max |-> {30},
       env |-> [Environment({1, 102}, {0, 100}, {100}, {"ok", "raised"}, {20},
                            {STAGGER_MIN}, FALSE, MaxTime)
                EXCEPT !.fates = {"rejected", "reverted", "pending"},
                       !.approve = {"none", "ok", "rejected", "pending"},
                       !.allowance = {None, 0, UNLIMITED}]] }

----------------------------------------------------------------------------
(* The state when run() enters its loop, lines 330-367.  Every wallet that *)
(* holds tokens at startup is given an entry at the current time, priced   *)
(* by get_token_price_usd (or 0.0); the generators have been advanced to   *)
(* their seeds and the queue has been refilled once.                       *)

Init ==
    /\ now = 1
    /\ pc = "loop"
    /\ \E sc \in Scenarios :
         /\ accounts = sc.wallets
         /\ env = sc.env
         /\ VOLUME_MODE \in sc.volume
         /\ POSITION_PCT_MAX \in sc.pct_max
    /\ last_received_bnb = 0
    /\ outstanding = [a \in accounts |-> <<>>]
    /\ \E holders \in SUBSET accounts, usd_out \in env.oracle :
         /\ (\A tbal \in env.tok : tbal = 0) => holders = {}
         /\ LET got == get_token_price_usd([t |-> 0, v |-> None], now, usd_out)
            IN
             /\ TOKENUSD_CACHE = IF holders = {} THEN [t |-> 0, v |-> None] ELSE got.cache
             /\ last_fetch = IF holders = {} THEN [t |-> 0, v |-> None]
                             ELSE FetchAfter([t |-> 0, v |-> None], got, now, usd_out)
             /\ state = [a \in accounts |->
                          IF a \in holders
                          THEN [entry_time |-> now,
                                entry_price |-> IF Truthy(got.v) THEN got.v ELSE 0,
                                sell_count |-> 0]
                          ELSE [entry_time |-> None, entry_price |-> None,
                                sell_count |-> 0]]
    /\ LET bf == GenNext(GenNext(fib_gen))
           sf == GenNext(fib_gen)
       IN  /\ action_queue \in refill_queue(<<>>, bf, sf)
           /\ buy_fib = GenNext(bf)
           /\ sell_fib = GenNext(sf)
    /\ refill_log = <<<<Count(action_queue, "buy"), Count(action_queue, "sell")>>>>
    /\ buy_streak = [a \in accounts |-> 0]
    /\ forced_sells = [a \in accounts |-> 0]
    /\ sold = FALSE
    /\ cooldown_until = None
    /\ last = NoEvent

----------------------------------------------------------------------------
(* The head of a pass, lines 370-373: refill the queue if it is empty, and *)
(* pop its first token.  q is the queue before the pop.                    *)

Refilled ==
    IF action_queue = <<>>
    THEN refill_queue(action_queue, buy_fib, sell_fib)
    ELSE {action_queue}

Looping ==
    /\ pc = "loop"
    /\ now <= env.horizon
    /\ action_queue = <<>> => Len(refill_log) < MaxRefills

Pop(q) ==
    /\ buy_fib' = IF action_queue = <<>> THEN GenNext(buy_fib) ELSE buy_fib
    /\ sell_fib' = IF action_queue = <<>> THEN GenNext(sell_fib) ELSE sell_fib
    /\ refill_log' = IF action_queue = <<>>
                     THEN Append(refill_log, <<Count(q, "buy"), Count(q, "sell")>>)
                     ELSE refill_log

(* web3.eth.get_balance raises at line 380 (or 417, 429): nothing in run() *)
(* catches it, and run() ends.                                             *)
BalanceLookupFails ==
    /\ Looping
    /\ \E q \in Refilled :
        /\ Pop(q)
        /\ env.rpc_down
        /\ action_queue' = Tail(q)
        /\ pc' = "crashed"
        /\ last' = Event("crash", "none", "crash", 0, 0, None, 0)
        /\ UNCHANGED <<state, last_received_bnb, TOKENUSD_CACHE, now, VOLUME_MODE,
                       POSITION_PCT_MAX, env, accounts, buy_streak, forced_sells, sold,
                       last_fetch, cooldown_until, outstanding>>

(* Lines 389-434: no wallet can take the token and no forced sell is       *)
(* submitted: warn and sleep 5.  For a sell token every token balance read *)
(* is 0.  For a buy token every spendable balance read is 0, and either    *)
(* every token balance read is 0 (tbal = 0 below) or acc, picked among the *)
(* wallets with tokens, has int(tbal * sell_percentage) = 0 and the pass   *)
(* falls through line 397 to the warning of line 413.                      *)
NoWallet ==
    /\ Looping
    /\ \E q \in Refilled :
        /\ Pop(q)
        /\ action_queue' = Tail(q)
        /\ now' = now + BACKOFF
        /\ IF Head(q) = "buy"
           THEN /\ \E bnb_bal \in env.bnb : spendable(bnb_bal) = 0
                /\ \E acc \in accounts, tbal \in env.tok :
                    /\ PctOf(tbal, sell_percentage(state[acc].sell_count)) = 0
                    /\ last' = Event("idle", IF tbal > 0 THEN acc ELSE "none",
                                     "idle", 0, tbal, None, BACKOFF)
           ELSE /\ 0 \in env.tok
                /\ last' = Event("idle", "none", "idle", 0, 0, None, BACKOFF)
        /\ UNCHANGED <<state, last_received_bnb, TOKENUSD_CACHE, pc, VOLUME_MODE,
                       POSITION_PCT_MAX, env, accounts, buy_streak, forced_sells, sold,
                       last_fetch, cooldown_until, outstanding>>

(* Lines 389-412: a buy token, every wallet's spendable balance read as 0, *)
(* and acc, with token balance tbal > 0, picked among the wallets with     *)
(* tokens: sell a share of its balance.                                    *)
ForcedSell ==
    /\ Looping
    /\ \E q \in Refilled :
      /\ Pop(q)
      /\ Head(q) = "buy"
      /\ \E bnb_bal \in env.bnb : spendable(bnb_bal) = 0
      /\ \E acc \in accounts, tbal \in env.tok :
          LET pct == sell_percentage(state[acc].sell_count)
              amount_in == PctOf(tbal, pct)
          IN
          /\ tbal > 0
          /\ amount_in > 0
          /\ \E result \in env.results, received \in env.received,
                sleep_time \in env.stagger, quotes \in env.quotes,
                allowance \in env.allowance :
              \E fate \in Fates(result, env.fates),
                 approve \in Approvals(allowance, amount_in, env.approve) :
              LET rec == RecordAfterTrade(state[acc], "sell", result, now, None)
                  pool == send_tx(approve_if_needed(outstanding[acc], approve), fate)
              IN
              /\ Len(pool) <= MaxPool
              /\ result = "ok" => MayReturn(allowance, amount_in, approve)
              /\ outstanding' = [outstanding EXCEPT ![acc] = pool]
              /\ result = "raised" => \A r \in env.received : received <= r
              /\ state' = [state EXCEPT ![acc] = rec]
              /\ last_received_bnb' =
                     ReceivedAfterSell(last_received_bnb, result, received)
              /\ action_queue' = QueueAfterForcedSell(Tail(q), result, rec.sell_count)
              /\ now' = now + sleep_time
              /\ buy_streak' = [buy_streak EXCEPT
                                  ![acc] = StreakAfter(@, "sell", result)]
              /\ forced_sells' = [forced_sells EXCEPT
                                    ![acc] = IF result = "ok" THEN @ + 1 ELSE @]
              /\ sold' = (sold \/ result = "ok")
              /\ cooldown_until' = CooldownAfter(cooldown_until, result, now, sleep_time)
              /\ last' = Allowed(Paced(Swap(Event("forced", acc, result, amount_in,
                                                  tbal, state[acc].entry_time,
                                                  sleep_time), quotes),
                                       cooldown_until, now),
                                 allowance, approve, fate)
      /\ UNCHANGED <<TOKENUSD_CACHE, pc, VOLUME_MODE, POSITION_PCT_MAX, env, accounts,
                     last_fetch>>

(* Lines 436-457 and 481-489: a buy token, and acc, whose balance read is  *)
(* bnb_bal, picked among the wallets with a spendable balance.             *)
Buy ==
    /\ Looping
    /\ \E q \in Refilled :
      /\ Pop(q)
      /\ Head(q) = "buy"
      /\ action_queue' = Tail(q)
      /\ \E acc \in accounts, bnb_bal \in env.bnb, usd_out \in env.oracle,
            frac \in pick_position_fraction(POSITION_PCT_MAX) :
          LET amount == spendable(bnb_bal)
              got == PriceLookup(TOKENUSD_CACHE, now, usd_out, VOLUME_MODE)
              size == to_spend(last_received_bnb, amount, frac)
          IN
          /\ amount > 0
          /\ TOKENUSD_CACHE' = got.cache
          /\ last_fetch' = FetchAfter(last_fetch, got, now, usd_out)
          /\ IF size <= 0
             THEN \* line 449: `continue`, with no sleep
                  /\ UNCHANGED <<state, now, buy_streak, forced_sells, cooldown_until,
                                 outstanding>>
                  /\ last' = Looked(Event("buy", acc, "skipped", size, amount,
                                          state[acc].entry_time, 0),
                                    got, last_fetch, now)
             ELSE \E result \in env.results, quotes \in env.quotes :
                  \E sleep_time \in SleepAfter(result = "ok", env.stagger),
                     fate \in Fates(result, env.fates) :
                  LET pool == send_tx(outstanding[acc], fate)
                  IN
                  /\ Len(pool) <= MaxPool
                  /\ outstanding' = [outstanding EXCEPT ![acc] = pool]
                  /\ state' = [state EXCEPT
                                 ![acc] = RecordAfterTrade(@, "buy", result, now, got.v)]
                  /\ now' = now + sleep_time
                  /\ buy_streak' = [buy_streak EXCEPT
                                      ![acc] = StreakAfter(@, "buy", result)]
                  /\ forced_sells' = [forced_sells EXCEPT
                                        ![acc] = IF result = "ok" THEN 0 ELSE @]
                  /\ cooldown_until' =
                         CooldownAfter(cooldown_until, result, now, sleep_time)
                  /\ last' = Priced(Paced(Looked(Swap(Event("buy", acc, result, size,
                                                            amount, state[acc].entry_time,
                                                            sleep_time),
                                                      quotes),
                                                 got, last_fetch, now),
                                          cooldown_until, now),
                                    state[acc])
      /\ UNCHANGED <<last_received_bnb, pc, VOLUME_MODE, POSITION_PCT_MAX, env, accounts,
                     sold>>

(* Lines 436-442 and 459-489: a sell token, and acc, whose token balance   *)
(* read is tbal, picked among the wallets that hold tokens.                *)
Sell ==
    /\ Looping
    /\ \E q \in Refilled :
      /\ Pop(q)
      /\ Head(q) = "sell"
      /\ action_queue' = Tail(q)
      /\ \E acc \in accounts, tbal \in env.tok, usd_out \in env.oracle,
            frac \in Uniform(SELL_PCT_MIN, SELL_PCT_MAX) :
          LET got == PriceLookup(TOKENUSD_CACHE, now, usd_out, VOLUME_MODE)
              amount_in == PctOf(tbal, frac)
              age == Age(state[acc].entry_time, now)
              go == sell_now(age, got.v, state[acc].entry_price, VOLUME_MODE)
          IN
          /\ tbal > 0
          /\ TOKENUSD_CACHE' = got.cache
          /\ last_fetch' = FetchAfter(last_fetch, got, now, usd_out)
          /\ IF amount_in <= 0 \/ ~go
             THEN \* lines 463 and 471: `continue`, with no sleep
                  /\ UNCHANGED <<state, last_received_bnb, now, buy_streak, sold,
                                 cooldown_until, outstanding>>
                  /\ last' = Looked(Event("sell", acc,
                                          IF amount_in <= 0 THEN "skipped" ELSE "held",
                                          amount_in, tbal, state[acc].entry_time, 0),
                                    got, last_fetch, now)
             ELSE \E result \in env.results, received \in env.received,
                     quotes \in env.quotes, allowance \in env.allowance :
                  \E sleep_time \in SleepAfter(result = "ok", env.stagger),
                     fate \in Fates(result, env.fates),
                     approve \in Approvals(allowance, amount_in, env.approve) :
                  LET pool == send_tx(approve_if_needed(outstanding[acc], approve), fate)
                  IN
                  /\ Len(pool) <= MaxPool
                  /\ result = "ok" => MayReturn(allowance, amount_in, approve)
                  /\ outstanding' = [outstanding EXCEPT ![acc] = pool]
                  /\ result = "raised" => \A r \in env.received : received <= r
                  /\ state' = [state EXCEPT
                                 ![acc] = RecordAfterTrade(@, "sell", result, now, got.v)]
                  /\ last_received_bnb' =
                         ReceivedAfterSell(last_received_bnb, result, received)
                  /\ now' = now + sleep_time
                  /\ buy_streak' = [buy_streak EXCEPT
                                      ![acc] = StreakAfter(@, "sell", result)]
                  /\ sold' = (sold \/ result = "ok")
                  /\ cooldown_until' =
                         CooldownAfter(cooldown_until, result, now, sleep_time)
                  /\ last' = Allowed(Paced(Looked(Swap(Event("sell", acc, result,
                                                             amount_in, tbal,
                                                             state[acc].entry_time,
                                                             sleep_time),
                                                       quotes),
                                                  got, last_fetch, now),
                                           cooldown_until, now),
                                     allowance, approve, fate)
      /\ UNCHANGED <<pc, VOLUME_MODE, POSITION_PCT_MAX, env, accounts, forced_sells>>

(* The chain, between two passes: one of an account's outstanding          *)
(* transactions is mined.                                                  *)
Settle ==
    /\ pc = "loop"
    /\ \E acc \in accounts :
        \E i \in 1..Len(outstanding[acc]) :
          outstanding' = [outstanding EXCEPT ![acc] = Mined(@, @[i])]
    /\ UNCHANGED <<accounts, state, last_received_bnb, action_queue, buy_fib, sell_fib,
                   TOKENUSD_CACHE, now, VOLUME_MODE, POSITION_PCT_MAX, env, pc,
                   refill_log, buy_streak, forced_sells, sold, last_fetch,
                   cooldown_until, last>>

Next == BalanceLookupFails \/ NoWallet \/ ForcedSell \/ Buy \/ Sell \/ Settle

Spec == Init /\ [][Next]_vars

----------------------------------------------------------------------------
(* Properties.  `last` describes the pass that has just ended; the clock   *)
(* at the moment its trade was submitted is now - last.slept.              *)

Submitted == last.kind \in {"buy", "sell", "forced"} /\ last.outcome \in {"ok", "raised"}
Executed == last.kind \in {"buy", "sell", "forced"} /\ last.outcome = "ok"
SubmittedAt == now - last.slept

\* sell_count, buy_streak and forced_sells of the chosen wallet before the pass.
SellCountBefore ==
    state[last.acct].sell_count
        - (IF last.outcome = "ok" /\ last.kind # "buy" THEN 1 ELSE 0)
BuyStreakBelowTwoBefore ==
    IF last.outcome = "ok" /\ last.kind # "buy"
    THEN buy_streak[last.acct] = 0
    ELSE buy_streak[last.acct] < 2
ForcedSellsBefore ==
    forced_sells[last.acct] - (IF last.outcome = "ok" THEN 1 ELSE 0)

\* C1: no sell (queue-driven, profit-triggered or forced) of a wallet with a
\* recorded entry_time is executed before HOLD_MIN seconds have passed since
\* that entry.
C1_SellAfterMinHold ==
    (Executed /\ last.kind \in {"sell", "forced"} /\ last.entry # None)
        => SubmittedAt - last.entry >= HOLD_MIN

\* C2: the first three refills append (2 buy, 1 sell), (3, 2) and (5, 3)
\* tokens, and each refill appends what its two generators yielded, each
\* advanced once.
C2_FibonacciRefills ==
    /\ Len(refill_log) >= 1 => refill_log[1] = <<2, 1>>
    /\ Len(refill_log) >= 2 => refill_log[2] = <<3, 2>>
    /\ Len(refill_log) >= 3 => refill_log[3] = <<5, 3>>
    /\ refill_log[Len(refill_log)] = <<buy_fib.b, sell_fib.b>>

C2_Witness ==
    /\ Len(refill_log) = 3
    /\ Len(action_queue) = 7

\* C3: once a wallet has sold twice in a row (sell_count >= 2) with fewer
\* than two buys in a row before, no further sell is submitted for it before
\* a buy.
C3_BuyAfterTwoSells ==
    ~ /\ Submitted
      /\ last.kind \in {"sell", "forced"}
      /\ SellCountBefore >= 2
      /\ BuyStreakBelowTwoBefore

\* C4: a pass that did not trade (no wallet, size <= 0, hold, trade raised)
\* ends with the 5-second backoff, and so never with no wait at all.
C4_BackoffAfterFailure ==
    last.outcome \in {"idle", "skipped", "held", "raised"} => last.slept = BACKOFF

\* C5: no error inside a pass ends run(): the loop is always still running.
C5_LoopNeverHalts == pc = "loop"

\* C6: a pass whose trade raised leaves every wallet's entry_time, entry_price
\* and sell_count, and last_received_bnb, as they were.
C6_FailedTradeChangesNothing ==
    [][last'.outcome = "raised"
          => state' = state /\ last_received_bnb' = last_received_bnb]_vars

C6_Witness ==
    /\ last.outcome = "raised"
    /\ last.kind = "sell"
    /\ accounts = Wallets
    /\ last_received_bnb > 0
    /\ \E a \in accounts : a # last.acct /\ state[a].entry_time # None

\* C7: a forced sell offers 40% of the token balance when it is the wallet's
\* first since its last buy, 30% when it is the second, and there is no third.
C7_ForcedSellEscalation ==
    (Submitted /\ last.kind = "forced")
        => /\ ForcedSellsBefore < 2
           /\ ForcedSellsBefore = 0 => last.amount = PctOf(last.base, FORCED_FIRST_PCT)
           /\ ForcedSellsBefore = 1 => last.amount = PctOf(last.base, FORCED_NEXT_PCT)

\* C8: every executed buy spends at most POSITION_PCT_MAX of the spendable
\* balance (and a positive amount: the program has no other floor).
C8_BuyWithinConfiguredMax ==
    (Executed /\ last.kind = "buy")
        => /\ last.amount * 100 <= last.base * POSITION_PCT_MAX
           /\ last.amount >= 1

\* C9: once a sell has returned a hash, every buy submitted later, on any
\* wallet, is sized min(floor(1.05 * last_received_bnb), floor(0.30 * spendable));
\* before that, it is sized from a draw of _pick_position_fraction (under the
\* same 30% cap).
C9_ReinvestAfterSell ==
    (Submitted /\ last.kind = "buy")
        => IF sold
           THEN last.amount = Min(PctOf(last_received_bnb, REINVEST_PCT),
                                  PctOf(last.base, BUY_CAP_PCT))
           ELSE \E f \in pick_position_fraction(POSITION_PCT_MAX) :
                    last.amount = Min(PctOf(last.base, f),
                                      PctOf(last.base, BUY_CAP_PCT))

C9_Witness ==
    /\ Executed
    /\ last.kind = "buy"
    /\ sold
    /\ accounts = Wallets
    /\ state[last.acct].sell_count = 0
    /\ \E a \in accounts : a # last.acct /\ state[a].sell_count > 0
    /\ last.amount = PctOf(last_received_bnb, REINVEST_PCT)
    /\ last.amount < PctOf(last.base, BUY_CAP_PCT)

\* C10: a queue-driven sell of a wallet with no recorded entry_time is never
\* held back by the hold window.
C10_FlatWalletNotHeld ==
    ~ (last.kind = "sell" /\ last.outcome = "held" /\ last.entry = None)

\* C11: a pass that pops a buy token while no wallet has a spendable balance
\* idles (warning and backoff) only when no wallet holds tokens; when the
\* wallet picked for the forced sell holds tokens, a sell is submitted.
C11_ForcedSellInsteadOfIdle ==
    last.kind = "idle" => last.base = 0

\* The greatest quote over the candidate paths, and the path that gives it
\* (the direct path, evaluated first, on a tie).
best_quote(quotes) == Max(quotes[1], quotes[2])
best_path(quotes) == IF quotes[2] > quotes[1] THEN "via" ELSE "direct"

\* C12: the minimum output handed to the router with every buy and every
\* sell is floor(best_quote * slippage_tolerance).
C12_MinOutFromBestQuote ==
    Submitted => last.min_out = PctOf(best_quote(last.quotes), SLIPPAGE_TOLERANCE)

\* C13: a price lookup made within PRICE_TTL of the oracle's last answer
\* returns that answer without asking the oracle again; any other lookup
\* (no answer yet, or PRICE_TTL elapsed) asks the oracle.
C13_PriceCacheTTL ==
    last.lookup # "none"
        => IF last.fetch_age # None /\ last.fetch_age <= PRICE_TTL
           THEN last.lookup = "cached" /\ last.price = last_fetch.v
           ELSE last.lookup = "called"

C13_Witness ==
    /\ last.lookup = "cached"
    /\ last.fetch_age > 0
    /\ last.price = last_fetch.v
    /\ 105 \in env.oracle

\* C14: every executed trade is followed, before anything else, by a pause of
\* at least STAGGER_MIN seconds, and no trade on any wallet is executed
\* before the pause set by the last executed trade has ended.
C14_PauseBetweenTrades ==
    Executed => /\ last.slept >= STAGGER_MIN
                /\ cooldown_until = SubmittedAt + last.slept
                /\ last.since # None => last.since >= 0

C14_Witness ==
    /\ Executed
    /\ last.since = 0
    /\ last.kind = "buy"
    /\ accounts = Wallets
    /\ \E a \in accounts : a # last.acct /\ state[a].sell_count > 0

\* C15: every executed sell, queue-driven or forced, sells a positive amount
\* strictly smaller than the token balance it was computed from, the balance
\* read for the wallet in that pass.
C15_SellLeavesRemainder ==
    (Executed /\ last.kind \in {"sell", "forced"})
        => last.amount > 0 /\ last.amount < last.base

C15_Witness ==
    /\ Executed
    /\ last.kind = "forced"
    /\ state[last.acct].sell_count = 3
    /\ last.amount = 30
    /\ last.base = 100

\* C16: with VOLUME_MODE set no pass looks the price up, a sell of a wallet
\* with a recorded entry is executed only when the position's age has
\* reached HOLD_MIN, and a sell whose position has reached that age is not
\* held back.
C16_VolumeModeTimeoutOnly ==
    VOLUME_MODE
        => /\ last.lookup = "none"
           /\ (Executed /\ last.kind \in {"sell", "forced"} /\ last.entry # None)
                  => Age(last.entry, SubmittedAt) >= HOLD_MIN
           /\ (last.kind = "sell" /\ last.outcome = "held")
                  => Age(last.entry, SubmittedAt) < HOLD_MIN

\* C17: a buy that returned a hash while a price was available sets the
\* wallet's entry_price to the price if it had none (None, or the 0.0 that
\* the program records for a buy without a price), and to the mean of its
\* previous entry_price and the price otherwise.
C17_EntryPriceAveraged ==
    (Executed /\ last.kind = "buy" /\ Truthy(last.price))
        => IF ~Truthy(last.entry_price)
           THEN state[last.acct].entry_price = last.price
           ELSE 2 * state[last.acct].entry_price = last.entry_price + last.price

\* C18: the swap of every trade goes over the candidate path with the
\* greatest quote, and over the direct path on a tie: the path through the
\* intermediate asset for quotes (100, 120), the direct one for (120, 120).
C18_BestQuoteRoute ==
    Submitted => last.path = best_path(last.quotes)

\* C19: no account ever has two outstanding transactions with the same nonce.
C19_NoSharedNonce ==
    \A acc \in accounts :
      \A i, j \in 1..Len(outstanding[acc]) :
        i # j => outstanding[acc][i] # outstanding[acc][j]

\* C20: every pass pops exactly one token, from a queue that is not empty;
\* the queue is refilled exactly when the pass finds it empty; the popped
\* token is never put back; and the only token that enters the queue outside
\* a refill is one "sell", pushed to the front by a forced sell that returned
\* a hash and left sell_count below 2.
C20_QueueDiscipline ==
    [][<<action_queue, refill_log, now, last, state, pc>>'
            # <<action_queue, refill_log, now, last, state, pc>>
       => LET refilled == Len(refill_log') = Len(refill_log) + 1
              added == IF refilled THEN refill_log'[Len(refill_log')] ELSE <<0, 0>>
              pushed == /\ last'.kind = "forced"
                        /\ last'.outcome = "ok"
                        /\ state'[last'.acct].sell_count < 2
              push == IF pushed THEN <<"sell">> ELSE <<>>
          IN  /\ refilled \/ refill_log' = refill_log
              /\ refilled <=> action_queue = <<>>
              /\ Len(action_queue) + added[1] + added[2] >= 1
              /\ Len(action_queue')
                   = Len(action_queue) + added[1] + added[2] - 1 + Len(push)
              /\ ~refilled => action_queue' = push \o Tail(action_queue)
              /\ pushed => Head(action_queue') = "sell"
              /\ refilled =>
                   \E token \in {"buy", "sell"} :
                     /\ Count(action_queue', "buy")
                          = added[1] - (IF token = "buy" THEN 1 ELSE 0)
                     /\ Count(action_queue', "sell")
                          = added[2] - (IF token = "sell" THEN 1 ELSE 0) + Len(push)
      ]_vars

C20_Witness ==
    /\ last.kind = "forced"
    /\ last.outcome = "ok"
    /\ state[last.acct].sell_count = 1
    /\ Head(action_queue) = "sell"
    /\ refill_log = <<<<2, 1>>, <<3, 2>>>>
    /\ Len(action_queue) = 5

\* C21: the swap of a sell is broadcast only when the router's allowance
\* covers amount_in: allowance() answered at least amount_in, or the approval
\* that approve_if_needed sent was mined with status 1.
C21_SwapOnlyWithAllowance ==
    (last.kind \in {"sell", "forced"} /\ last.fate \in {"ok", "reverted", "pending"})
        => \/ last.allowance # None /\ last.allowance >= last.amount
           \/ last.approve = "ok"

====
